---- MODULE Spec2Model ----
(***************************************************************************)
(* Model of main.py: the weekly battleground-wins ledger.                  *)
(*                                                                         *)
(* A run of the script reads the usernames file, loads the ledger CSV,     *)
(* fetches and merges one user at a time and writes the ledger back.  The  *)
(* model follows a sequence of runs over the same disk.                    *)
(*                                                                         *)
(* Python values are tagged records [t, v]:                                *)
(*   "int"   an int (v is the number)                                      *)
(*   "str"   the decimal text of v, as csv writes an int and reads a cell  *)
(*   "empty" the text ''                                                   *)
(*   "week"  the ISO date text of week number v                            *)
(*   "none"  None                                                          *)
(*   "absent" the key is not in the dict                                   *)
(* Week columns are ISO dates of Mondays; their lexicographic order is     *)
(* their chronological order, so a week is modelled by its number.         *)
(***************************************************************************)
EXTENDS Integers, Sequences, FiniteSets, TLC

\* ------------------------------------------------------------- bounds
MaxWeek == 2        \* weeks the clock runs through
MaxRuns == 3        \* invocations of the script
MaxTotal == 2       \* largest data-won value of a page fetched by a run
MaxRows == 2        \* record rows of a page (fetch_total_wins alone)
MaxWon == 1         \* largest data-won value of such a page

Users == {"alice", "bob"}
Weeks == 1..MaxWeek
NoUser == "-"

\* constants.BATTLEGROUND_CHALLENGERS, and a challenger name outside it
BATTLEGROUND_CHALLENGERS == {"Kasuki Lu", "Commander Garoo"}
OtherChallenger == "Chia Clown"

\* ------------------------------------------------------- Python values
IntVal(n) == [t |-> "int", v |-> n]
StrVal(n) == [t |-> "str", v |-> n]
EmptyStr == [t |-> "empty", v |-> 0]
WeekVal(w) == [t |-> "week", v |-> w]
NoneVal == [t |-> "none", v |-> 0]
Absent == [t |-> "absent", v |-> 0]

\* Python truth value of a cell: 0, '' and None are false, '0' is true
Truthy(c) == ~(c.t \in {"empty", "none"} \/ (c.t = "int" /\ c.v = 0))

\* int(c) raises ValueError on '' (and TypeError on None)
IntRaises(c) == c.t \notin {"int", "str"}
int(c) == c.v

\* what csv.DictWriter writes for a value: str(value), '' for None and for
\* a key the row lacks
CsvText(c) ==
    CASE c.t = "int" -> StrVal(c.v)
      [] c.t \in {"none", "absent"} -> EmptyStr
      [] OTHER -> c

\* sorted(S) for a set of weeks
RECURSIVE sorted(_)
sorted(S) ==
    IF S = {} THEN <<>>
    ELSE LET m == CHOOSE x \in S : \A y \in S : x <= y
         IN <<m>> \o sorted(S \ {m})

\* ------------------------------------------------- fetch_total_wins
NoCell == "<no cell>"
ChallengerNames == BATTLEGROUND_CHALLENGERS \cup {OtherChallenger}

\* a record row: its td.name text (or no such cell) and its td.won cell's
\* data-won attribute (or no such cell)
RecordRows(maxWon) ==
    [name : ChallengerNames \cup {NoCell},
     won : {Absent} \cup {StrVal(n) : n \in 0..maxWon}]

RECURSIVE SeqsUpTo(_, _)
SeqsUpTo(S, n) ==
    IF n = 0 THEN {<<>>}
    ELSE LET shorter == SeqsUpTo(S, n - 1)
         IN shorter \cup {Append(q, x) : q \in {r \in shorter : Len(r) = n - 1}, x \in S}

\* an HTTP response: status code, whether the page has a recordsTable, and
\* the table's recordRow rows
ResponsesOf(maxRows, maxWon) ==
    [status : {200, 404},
     table : BOOLEAN,
     rows : SeqsUpTo(RecordRows(maxWon), maxRows)]

\* the loop over rows, lines 30-39
RECURSIVE SumRows(_, _, _)
SumRows(rows, i, total_wins) ==
    IF i > Len(rows) THEN total_wins
    ELSE LET name_cell == rows[i].name
             wins_cell == rows[i].won
         IN IF name_cell # NoCell /\ wins_cell # Absent
            THEN LET wins == int(wins_cell)
                 IN IF name_cell \in BATTLEGROUND_CHALLENGERS
                    THEN SumRows(rows, i + 1, total_wins + wins)
                    ELSE SumRows(rows, i + 1, total_wins)
            ELSE SumRows(rows, i + 1, total_wins)

\* mutant: the challenger test of line 38 left out
RECURSIVE SumEveryRow(_, _, _)
SumEveryRow(rows, i, total_wins) ==
    IF i > Len(rows) THEN total_wins
    ELSE IF rows[i].name # NoCell /\ rows[i].won # Absent
    THEN SumEveryRow(rows, i + 1, total_wins + int(rows[i].won))
    ELSE SumEveryRow(rows, i + 1, total_wins)
fetch_total_wins_any_challenger(response) ==
    IF response.status = 200
    THEN IF response.table THEN SumEveryRow(response.rows, 1, 0) ELSE 0
    ELSE 0

fetch_total_wins(response) ==
    IF response.status = 200
    THEN IF response.table THEN SumRows(response.rows, 1, 0) ELSE 0
    ELSE 0

\* ------------------------------------------------------ the ledger
\* a dict: keys in insertion order, and the value of each key
EmptyDict == [keys |-> <<>>, val |-> [k \in {} |-> Absent]]
Has(d, k) == k \in DOMAIN d.val
DictSet(d, k, x) ==
    [keys |-> IF Has(d, k) THEN d.keys ELSE Append(d.keys, k),
     val |-> [j \in DOMAIN d.val \cup {k} |-> IF j = k THEN x ELSE d.val[j]]]

\* a user's record without its "" key: the week columns and the two
\* derived fields
NewRow == [cells |-> [w \in {} |-> Absent], wins |-> Absent, last |-> Absent]
\* mutant: the assignment replaces the user's week columns
SetCell_reset(row, w, x) == [row EXCEPT !.cells = [j \in {w} |-> x]]
SetCell(row, w, x) ==
    [row EXCEPT !.cells = [j \in DOMAIN row.cells \cup {w} |->
                              IF j = w THEN x ELSE row.cells[j]]]
WeekKeys(row) == DOMAIN row.cells

\* a file that does not exist
NoFile == [exists |-> FALSE, header |-> <<>>, rows |-> <<>>]

RECURSIVE LoadRows(_, _, _, _)
LoadRows(rows, i, valid_users, weekly_data) ==
    IF i > Len(rows) THEN weekly_data
    ELSE LET username == rows[i].name
         IN IF username \in valid_users
            THEN LoadRows(rows, i + 1, valid_users,
                          DictSet(weekly_data, username, rows[i].data))
            ELSE LoadRows(rows, i + 1, valid_users, weekly_data)

\* mutant: the membership test of line 62 left out
load_weekly_data_unfiltered(file, valid_users) ==
    IF file.exists THEN LoadRows(file.rows, 1, Users, EmptyDict)
    ELSE EmptyDict

load_weekly_data(file, valid_users) ==
    IF file.exists THEN LoadRows(file.rows, 1, valid_users, EmptyDict)
    ELSE EmptyDict

\* ------------------------------------- determine_last_battled_week
\* the loop of lines 113-120, i from the last index down (1-based here)
RECURSIVE ScanWeeks(_, _, _, _)
ScanWeeks(user_data, weeks, i, total_wins) ==
    IF i < 1 THEN [exc |-> "", val |-> NoneVal]
    ELSE LET current_week == weeks[i]
             cell == user_data.cells[current_week]
         IN IF ~Truthy(cell)
            THEN IF i + 1 > Len(weeks)
                 THEN [exc |-> "IndexError", val |-> NoneVal]
                 ELSE [exc |-> "", val |-> WeekVal(weeks[i + 1])]
            ELSE IF IntRaises(cell)
            THEN [exc |-> "ValueError", val |-> NoneVal]
            ELSE IF total_wins - int(cell) > 0
            THEN [exc |-> "", val |-> WeekVal(current_week)]
            ELSE ScanWeeks(user_data, weeks, i - 1, total_wins)

determine_last_battled_week(user_data, total_wins) ==
    LET weeks == sorted(WeekKeys(user_data))
    IN ScanWeeks(user_data, weeks, Len(weeks), total_wins)

NotCalled == [exc |-> "", val |-> Absent]

\* ------------------------------------------------------ process_user
\* weeks[-2] if len(weeks) > 1 else None (0 stands for None)
\* mutant: weeks[-1] in place of weeks[-2]
LastWeek_newest(weeks) == IF Len(weeks) > 1 THEN weeks[Len(weeks)] ELSE 0
LastWeek(weeks) == IF Len(weeks) > 1 THEN weeks[Len(weeks) - 1] ELSE 0

\* the body of process_user after the fetch: the dict as the call leaves
\* it, the exception it raises ("" when it returns) and the outcome of
\* determine_last_battled_week when it was called
process_user(username, weekly_data, current_week, total_wins) ==
    LET wd1 == IF Has(weekly_data, username) THEN weekly_data
               ELSE DictSet(weekly_data, username, NewRow)
        row1 == SetCell(wd1.val[username], current_week, IntVal(total_wins))
        weeks == sorted(WeekKeys(row1))
        last_week == LastWeek(weeks)
    IN IF last_week # 0 /\ IntRaises(row1.cells[last_week])
       THEN [wd |-> DictSet(wd1, username, row1), exc |-> "ValueError",
             dlbw |-> NotCalled]
       ELSE LET wins_this_week ==
                    IF last_week # 0
                    THEN total_wins - int(row1.cells[last_week])
                    ELSE total_wins
                row2 == [row1 EXCEPT !.wins = IntVal(wins_this_week)]
                d == determine_last_battled_week(row2, total_wins)
            IN IF d.exc # ""
               THEN [wd |-> DictSet(wd1, username, row2), exc |-> d.exc,
                     dlbw |-> d]
               ELSE [wd |-> DictSet(wd1, username, [row2 EXCEPT !.last = d.val]),
                     exc |-> "", dlbw |-> d]

\* -------------------------------------------------- write_output_csv
AllWeeks(weekly_data) ==
    UNION {WeekKeys(weekly_data.val[u]) : u \in DOMAIN weekly_data.val}

\* DictWriter.writerow: one cell per header column, '' for a missing key
CsvRow(row, all_weeks) ==
    [cells |-> [w \in all_weeks |->
                   IF w \in WeekKeys(row) THEN CsvText(row.cells[w]) ELSE EmptyStr],
     wins |-> CsvText(row.wins),
     last |-> CsvText(row.last)]

write_output_csv(weekly_data) ==
    LET all_weeks == AllWeeks(weekly_data)
    IN [exists |-> TRUE,
        header |-> sorted(all_weeks),
        rows |-> [i \in 1..Len(weekly_data.keys) |->
                     [name |-> weekly_data.keys[i],
                      data |-> CsvRow(weekly_data.val[weekly_data.keys[i]], all_weeks)]]]

\* ------------------------------------------------------- the program
\* Both CSV path arguments are left at their default, "default.csv": the
\* ledger is read from and written to the same file.
VARIABLES
    disk,             \* the ledger file default.csv
    today,            \* the clock: number of the current week (0 before any run)
    runs,             \* invocations so far
    pc,               \* "idle", "loop", "exited", "raised"
    argv,             \* sys.argv
    stdout,           \* "usage" once the usage message is printed
    usernames,        \* main: the list read from the usernames file
    input_csv_path, output_csv_path,
    current_week,
    weekly_data,
    idx,              \* position of the for loop in usernames (1-based)
    exc,              \* the exception that ended the run, "" for none
    \* what the run has done so far
    disk_at_start,    \* the ledger file when the run started
    n_read, n_load, n_fetch, n_write,
    last_user, last_status, last_total,   \* the latest process_user call
    dlbw,             \* outcome of its determine_last_battled_week call
    same_totals,      \* every fetch of the run returned the total the input
                      \* ledger records for that user in current_week
    \* fetch_total_wins called alone
    response, fetched

runVars == <<pc, argv, stdout, usernames, input_csv_path, output_csv_path,
             current_week, weekly_data, idx, exc>>
histVars == <<disk_at_start, n_read, n_load, n_fetch, n_write,
              last_user, last_status, last_total, dlbw, same_totals>>
envVars == <<disk, today, runs>>
fetchVars == <<response, fetched>>
vars == <<envVars, runVars, histVars, fetchVars>>

Responses == ResponsesOf(MaxRows, MaxWon)
\* the pages a run fetches: at most one record row, data-won up to MaxTotal
RunResponses == ResponsesOf(1, MaxTotal)
\* what requests.get and the parse give process_user: status and total
FetchOutcomes ==
    {[status |-> r.status, total |-> fetch_total_wins(r)] : r \in RunResponses}

\* contents of the usernames file: at most one line per user of the model,
\* a user possibly repeated
Rosters == SeqsUpTo(Users, Cardinality(Users))
\* sys.argv: the script alone, or with the usernames file
Argvs == {<<"main.py">>, <<"main.py", "users.csv">>}

IdleResponse == [status |-> 200, table |-> FALSE, rows |-> <<>>]

\* before the first run
InitRun ==
    /\ disk = NoFile
    /\ today = 0
    /\ runs = 0
    /\ pc = "idle"
    /\ argv = <<>>
    /\ stdout = ""
    /\ usernames = <<>>
    /\ input_csv_path = "default.csv"
    /\ output_csv_path = "default.csv"
    /\ current_week = 0
    /\ weekly_data = EmptyDict
    /\ idx = 0
    /\ exc = ""
    /\ disk_at_start = disk
    /\ n_read = 0 /\ n_load = 0 /\ n_fetch = 0 /\ n_write = 0
    /\ last_user = NoUser /\ last_status = 0 /\ last_total = 0
    /\ dlbw = NotCalled
    /\ same_totals = TRUE

Init ==
    /\ InitRun
    /\ response = IdleResponse
    /\ fetched = Absent

\* the script is started when no run is under way
Terminated == pc \in {"idle", "exited", "raised"}

\* len(sys.argv) < 2
\* mutant: the argument count test off by one
MissingArgument_off_by_one(a) == Len(a) < 1
MissingArgument(a) == Len(a) < 2

\* sys.argv[k] if len(sys.argv) > k else "default.csv" (argv is 1-based here)
PathArg(a, k) == IF Len(a) > k THEN a[k + 1] ELSE "default.csv"

\* the script started without arguments: lines 182-183
PrintUsage ==
    /\ Terminated
    /\ runs < MaxRuns
    /\ runs' = runs + 1
    /\ \E a \in Argvs :
          /\ MissingArgument(a)
          /\ argv' = a
    /\ stdout' = "usage"
    /\ pc' = "exited"
    /\ usernames' = <<>>
    /\ current_week' = 0
    /\ weekly_data' = EmptyDict
    /\ idx' = 0
    /\ exc' = ""
    /\ disk_at_start' = disk
    /\ n_read' = 0 /\ n_load' = 0 /\ n_fetch' = 0 /\ n_write' = 0
    /\ last_user' = NoUser /\ last_status' = 0 /\ last_total' = 0
    /\ dlbw' = NotCalled
    /\ same_totals' = TRUE
    /\ UNCHANGED <<disk, today, input_csv_path, output_csv_path, fetchVars>>

\* the script started with a usernames file, in the week of the last run or
\* in a later one (only the order of the week columns matters to the code,
\* so a later week is numbered as the next one): lines 185-188, main, and
\* update_or_create_csv up to its loop
Main ==
    /\ Terminated
    /\ runs < MaxRuns
    /\ runs' = runs + 1
    /\ \E a \in Argvs, w \in Weeks, usernames_file \in Rosters :
          /\ ~MissingArgument(a)
          /\ w \in {today, today + 1}
          /\ argv' = a
          /\ today' = w
          /\ IF Len(a) < 2
             THEN \* sys.argv[1] raises IndexError
                  /\ pc' = "raised" /\ exc' = "IndexError"
                  /\ usernames' = <<>> /\ current_week' = 0
                  /\ weekly_data' = EmptyDict
                  /\ n_read' = 0 /\ n_load' = 0 /\ idx' = 0
                  /\ UNCHANGED <<input_csv_path, output_csv_path>>
             ELSE /\ input_csv_path' = PathArg(a, 2)
                  /\ output_csv_path' = PathArg(a, 3)
                  /\ usernames' = usernames_file
                  /\ n_read' = 1
                  /\ current_week' = w
                  /\ LET valid_users ==
                             {usernames_file[i] : i \in 1..Len(usernames_file)}
                     IN weekly_data' = load_weekly_data(disk, valid_users)
                  /\ n_load' = 1
                  /\ idx' = 1
                  /\ pc' = "loop" /\ exc' = ""
    /\ stdout' = ""
    /\ disk_at_start' = disk
    /\ n_fetch' = 0 /\ n_write' = 0
    /\ last_user' = NoUser /\ last_status' = 0 /\ last_total' = 0
    /\ dlbw' = NotCalled
    /\ same_totals' = TRUE
    /\ UNCHANGED <<disk, fetchVars>>

\* the text a ledger file holds for username in column week, Absent when
\* it has no such row or column
RECURSIVE RecordedFrom(_, _, _, _)
RecordedFrom(rows, i, username, week) ==
    IF i > Len(rows) THEN Absent
    ELSE IF rows[i].name = username
    THEN IF week \in WeekKeys(rows[i].data) THEN rows[i].data.cells[week] ELSE Absent
    ELSE RecordedFrom(rows, i + 1, username, week)
Recorded(file, username, week) == RecordedFrom(file.rows, 1, username, week)

\* one pass of the loop of lines 159-161: fetch, merge, sleep
ProcessUser ==
    /\ pc = "loop"
    /\ idx <= Len(usernames)
    /\ \E o \in FetchOutcomes :
          LET username == usernames[idx]
              r == process_user(username, weekly_data, current_week, o.total)
          IN /\ weekly_data' = r.wd
             /\ exc' = r.exc
             /\ dlbw' = r.dlbw
             /\ pc' = IF r.exc = "" THEN "loop" ELSE "raised"
             /\ idx' = IF r.exc = "" THEN idx + 1 ELSE idx
             /\ last_user' = username
             /\ last_status' = o.status
             /\ last_total' = o.total
             /\ same_totals' = (same_totals
                                /\ Recorded(disk, username, current_week) = StrVal(o.total))
    /\ n_fetch' = n_fetch + 1
    /\ UNCHANGED <<envVars, argv, stdout, usernames, input_csv_path,
                   output_csv_path, current_week, disk_at_start,
                   n_read, n_load, n_write, fetchVars>>

\* mutant: the write placed inside the loop body
WriteOutputCsv_in_loop ==
    /\ pc = "loop"
    /\ idx > 1
    /\ n_write < n_fetch
    /\ disk' = write_output_csv(weekly_data)
    /\ n_write' = n_write + 1
    /\ pc' = IF idx > Len(usernames) THEN "exited" ELSE "loop"
    /\ UNCHANGED <<today, runs, argv, stdout, usernames,
                   input_csv_path, output_csv_path, current_week, weekly_data,
                   idx, exc, disk_at_start, n_read, n_load, n_fetch,
                   last_user, last_status, last_total, dlbw, same_totals, fetchVars>>

\* line 164, after the loop
WriteOutputCsv ==
    /\ pc = "loop"
    /\ idx > Len(usernames)
    /\ disk' = write_output_csv(weekly_data)
    /\ n_write' = n_write + 1
    /\ pc' = "exited"
    /\ UNCHANGED <<today, runs, argv, stdout, usernames,
                   input_csv_path, output_csv_path, current_week, weekly_data,
                   idx, exc, disk_at_start, n_read, n_load, n_fetch,
                   last_user, last_status, last_total, dlbw, same_totals, fetchVars>>

Next == PrintUsage \/ Main \/ ProcessUser \/ WriteOutputCsv

Spec == Init /\ [][Next]_vars

\* ------------------------------------- fetch_total_wins called alone
\* a response has arrived
InitFetch ==
    /\ InitRun
    /\ response \in Responses
    /\ fetched = Absent

\* fetch_total_wins parses it and returns
FetchCall ==
    /\ fetched = Absent
    /\ fetched' = IntVal(fetch_total_wins(response))
    /\ UNCHANGED <<response, envVars, runVars, histVars>>

NextFetch == FetchCall

SpecFetch == InitFetch /\ [][NextFetch]_vars

\* =============================================================== claims
UserSet(list) == {list[i] : i \in 1..Len(list)}
RowNames(file) == {file.rows[i].name : i \in 1..Len(file.rows)}
HeaderWeeks(file) == {file.header[i] : i \in 1..Len(file.header)}
MaxOf(S) == CHOOSE x \in S : \A y \in S : y <= x
EarlierWeeks(row, week) == {w \in WeekKeys(row) : w < week}
Processed == last_user # NoUser
LastRow == weekly_data.val[last_user]
InRun == n_read = 1

\* C1: when the fetch for a user answers with a status other than 200, the
\* total is 0, no exception propagates, process_user completes and records 0
\* in the user's current-week column, and the run goes on.
C1_NonOkFetchRecordsZero ==
    (Processed /\ last_status # 200) =>
        /\ last_total = 0
        /\ exc = ""
        /\ pc # "raised"
        /\ LastRow.cells[current_week] = IntVal(0)

\* C2: for a 200 response fetch_total_wins returns the sum of the data-won
\* values of the record rows whose challenger is in BATTLEGROUND_CHALLENGERS;
\* other rows, and rows lacking a name or won cell, add nothing; a page
\* without records table gives 0.
RECURSIVE SumOver(_, _)
SumOver(rows, I) ==
    IF I = {} THEN 0
    ELSE LET i == CHOOSE j \in I : TRUE
         IN rows[i].won.v + SumOver(rows, I \ {i})
BattlegroundRows(rows) ==
    {i \in 1..Len(rows) :
        rows[i].name \in BATTLEGROUND_CHALLENGERS /\ rows[i].won # Absent}
C4_ResultIsNoneOrWeekKey ==
    (Processed /\ dlbw # NotCalled) =>
        /\ dlbw.exc = ""
        /\ dlbw.val \in {NoneVal} \cup {WeekVal(w) : w \in WeekKeys(LastRow)}

\* C5: started without the usernames-file argument, the program prints the
\* usage message and does nothing else: it reads no usernames file, fetches
\* no page, loads no ledger and leaves the output CSV as it was.
C5_NoArgumentNoWork ==
    (pc # "idle" /\ Len(argv) < 2) =>
        /\ stdout = "usage"
        /\ pc = "exited"
        /\ n_read = 0 /\ n_load = 0 /\ n_fetch = 0 /\ n_write = 0
        /\ disk = disk_at_start
C5_Witness ==
    /\ Len(argv) = 1
    /\ pc = "exited"
    /\ stdout = "usage"
    /\ disk.exists

\* C6: a run's output holds, for every roster user, every week column the
\* input ledger held for that user other than the current week's, with its
\* value unchanged; and processing user u changes only u's current-week
\* column and u's two derived fields, nothing of another user's record.
C6_OutputKeepsWeeks ==
    (pc = "exited" /\ n_write = 1) =>
        \A u \in UserSet(usernames) \cap RowNames(disk_at_start) :
            \A w \in HeaderWeeks(disk_at_start) \ {current_week} :
                /\ w \in HeaderWeeks(disk)
                /\ Recorded(disk, u, w) = Recorded(disk_at_start, u, w)
C6_ProcessFrame ==
    (n_fetch' = n_fetch + 1) =>
        /\ \A u \in Users \ {last_user'} :
              /\ Has(weekly_data', u) = Has(weekly_data, u)
              /\ Has(weekly_data, u) => weekly_data'.val[u] = weekly_data.val[u]
        /\ Has(weekly_data, last_user') =>
              /\ WeekKeys(weekly_data'.val[last_user']) \ {current_week}
                    = WeekKeys(weekly_data.val[last_user']) \ {current_week}
              /\ \A w \in WeekKeys(weekly_data.val[last_user']) \ {current_week} :
                    weekly_data'.val[last_user'].cells[w]
                       = weekly_data.val[last_user'].cells[w]
        /\ ~Has(weekly_data, last_user') =>
              WeekKeys(weekly_data'.val[last_user']) = {current_week}
        /\ disk' = disk
C6_LedgerAccumulates == [] C6_OutputKeepsWeeks /\ [][C6_ProcessFrame]_vars
C6_Witness ==
    /\ pc = "exited" /\ n_write = 1
    /\ current_week = 2
    /\ UserSet(usernames) = Users
    /\ RowNames(disk_at_start) = Users
    /\ 2 \notin HeaderWeeks(disk_at_start)
    /\ \A u \in Users : Recorded(disk, u, 1) = StrVal(1)
    /\ \A u \in Users : Recorded(disk, u, 2) = StrVal(2)

\* C7: a run is sequential: the ledger is loaded once, there is one fetch per
\* entry of the usernames file, in its order, and the output is written once,
\* after every user is processed; when processing a user fails the output
\* is not written and the ledger on disk stays as it was.
C7_SequentialRun ==
    InRun =>
        /\ n_load = 1
        /\ n_write <= 1
        /\ n_fetch <= Len(usernames)
        /\ n_fetch = (IF pc = "raised" THEN idx ELSE idx - 1)
        /\ n_fetch > 0 => last_user = usernames[n_fetch]
        /\ n_write = 1 => (n_fetch = Len(usernames) /\ pc = "exited")
        /\ pc = "exited" => n_write = 1
        /\ n_write = 0 => disk = disk_at_start
        /\ pc = "raised" => n_write = 0
C7_Witness ==
    /\ InRun
    /\ pc = "raised"
    /\ n_fetch = 2
    /\ disk.exists
    /\ disk = disk_at_start

\* C8: the written ledger has exactly one row for each distinct username of
\* the usernames file and no other row: a ledger user outside the roster is
\* dropped, a roster user the ledger lacks gets a new row.
C8_RowsAreTheRoster ==
    /\ InRun => DOMAIN weekly_data.val \subseteq UserSet(usernames)
    /\ (pc = "exited" /\ n_write = 1) =>
          /\ RowNames(disk) = UserSet(usernames)
          /\ Len(disk.rows) = Cardinality(UserSet(usernames))
C8_Witness ==
    /\ pc = "exited" /\ n_write = 1
    /\ disk_at_start.exists
    /\ RowNames(disk_at_start) \ UserSet(usernames) # {}
    /\ UserSet(usernames) \ RowNames(disk_at_start) # {}
    /\ Len(usernames) = 2

\* C9: a second run in the same week over the same ledger file, with the
\* fetched totals unchanged, completes and writes a ledger identical to the
\* one the first run wrote, for every roster.
Rerun ==
    /\ InRun
    /\ disk_at_start.exists
    /\ current_week \in HeaderWeeks(disk_at_start)
    /\ RowNames(disk_at_start) = UserSet(usernames)
    /\ same_totals
C9_RerunIsIdempotent ==
    (Rerun /\ pc \in {"exited", "raised"}) =>
        /\ pc = "exited"
        /\ disk = disk_at_start

\* C10: over any sequence of runs, with any roster changes and any fetched
\* totals including 0, no run raises, and every key of every row is among
\* the header columns.
C10_NoRunRaises ==
    /\ exc = ""
    /\ pc # "raised"
    /\ disk.exists => \A i \in 1..Len(disk.rows) :
                         WeekKeys(disk.rows[i].data) \subseteq HeaderWeeks(disk)

====
